---- MODULE Spec2Model ----
(***************************************************************************)
(* A model of ldpi.c: the LDmicro .int interpreter for the Raspberry Pi.   *)
(* The state is the three global arrays (Program, Integers, Bits), the     *)
(* sixteen wiring variables GPI0..GPI7 / GPO0..GPO7, the hardware pins and *)
(* the position of main().  One action per routine of the driver, one      *)
(* step of the two pc loops (Disassemble, InterpretOneCycle) per action.   *)
(*                                                                         *)
(* intcode.h is not part of the sources at hand, so opcodes are kept by    *)
(* name; a WORD value that is none of the INT_ constants is an unknown     *)
(* opcode, and the zero-filled remainder of Program[] holds one of them.   *)
(***************************************************************************)
EXTENDS Integers, Sequences, FiniteSets, TLC

VARIABLES
    file,           \* the .int file given on the command line (never written)
    phase,          \* where main() stands
    Program,        \* BinOp Program[MAX_OPS]
    Integers,       \* SWORD Integers[MAX_VARIABLES]
    Bits,           \* BYTE Bits[MAX_INTERNAL_RELAYS]
    GPI, GPO,       \* int GPI0..GPI7, GPO0..GPO7
    pc,             \* the local pc of Disassemble / InterpretOneCycle
    pinmode,        \* wiringPi: the mode given to each pin by pinMode()
    pinout,         \* wiringPi: the last value given to digitalWrite() per pin
    pinin,          \* wiringPi: the level on each pin at the last getInputs()
    listing,        \* what Disassemble has printed, one entry per line
    ub,             \* the undefined behaviour the run has executed, if any
    Integers0,      \* history: Integers when the current cycle's
    Bits0,          \*          InterpretOneCycle() was entered, and Bits
    inputsCopied,   \* history: calls of getInputs() that returned
    cyclesRun,      \* history: calls of InterpretOneCycle() that returned
    outputsCopied,  \* history: calls of setOutputs() that returned
    parity          \* history: whether the current call of InterpretOneCycle()
                    \*          has executed an odd number of instructions

vars == << file, phase, Program, Integers, Bits, GPI, GPO, pc, pinmode, pinout,
           pinin, listing, ub, Integers0, Bits0, inputsCopied, cyclesRun, outputsCopied,
           parity >>

-----------------------------------------------------------------------------
(* Sizes.  ldpi.c calls them arbitrary limits (1024, 128 and 128) and the   *)
(* model takes smaller ones, so that the end of each array is within reach   *)
(* of a short program and a state can be read.                               *)
MAX_OPS == 5
MAX_VARIABLES == 4
MAX_INTERNAL_RELAYS == 4

(* The driver loops forever; the model stops it after MaxCycles cycles.      *)
MaxCycles == 2

Pins == 0..7

(* typedef SWORD: the values of a signed short, and the conversion of an int *)
(* to it (gcc: reduction modulo 2^16).                                       *)
SWORD == -32768..32767

ToSWORDSaturating(x) == IF x > 32767 THEN 32767 ELSE IF x < -32768 THEN -32768 ELSE x

ToSWORD(x) == ((x + 32768) % 65536) - 32768

CDivFloor(a, b) == a \div b

(* C's integer division truncates toward zero; TLA+'s \div rounds down.      *)
CDiv(a, b) ==
    LET Abs(x) == IF x < 0 THEN -x ELSE x
        q == Abs(a) \div Abs(b)
    IN IF (a < 0) = (b < 0) THEN q ELSE -q

-----------------------------------------------------------------------------
(* The opcodes InterpretOneCycle and Disassemble have a case for.            *)
DataOps == { "INT_SET_BIT", "INT_CLEAR_BIT", "INT_COPY_BIT_TO_BIT",
             "INT_SET_VARIABLE_TO_LITERAL", "INT_SET_VARIABLE_TO_VARIABLE",
             "INT_INCREMENT_VARIABLE", "INT_SET_VARIABLE_ADD",
             "INT_SET_VARIABLE_SUBTRACT", "INT_SET_VARIABLE_MULTIPLY",
             "INT_SET_VARIABLE_DIVIDE" }

IfOps == { "INT_IF_BIT_SET", "INT_IF_BIT_CLEAR", "INT_IF_VARIABLE_LES_LITERAL",
           "INT_IF_VARIABLE_EQUALS_VARIABLE", "INT_IF_VARIABLE_GRT_VARIABLE" }

OpcodeSet == DataOps \cup IfOps \cup { "INT_ELSE", "INT_END_OF_PROGRAM" }

(* WORD values that are no opcode: zero (what the untouched part of the      *)
(* global Program[] holds) and one other value.                              *)
UnknownOps == { "OP_0000", "OP_0063" }

BinOp(op, name1, name2, name3, literal) ==
    [ op |-> op, name1 |-> name1, name2 |-> name2, name3 |-> name3,
      literal |-> literal ]

(* An element of the zero-initialised global array.                          *)
ZeroOp == BinOp("OP_0000", 0, 0, 0, 0)

-----------------------------------------------------------------------------
(* Text.  A symbol name and an address are kept as sequences of characters,  *)
(* so that strstr() and atoi() are computed as libc computes them.           *)
DigitChar == << "0", "1", "2", "3", "4", "5", "6", "7", "8", "9" >>

IsDigit(c) == \E d \in 1..10 : DigitChar[d] = c

DigitVal(c) == (CHOOSE d \in 1..10 : DigitChar[d] = c) - 1

(* strstr(s, pat) != NULL: pat occurs somewhere in s.                        *)
Strstr(s, pat) ==
    \E i \in 1..(Len(s) - Len(pat) + 1) : SubSeq(s, i, i + Len(pat) - 1) = pat

RECURSIVE AtoiDigits(_, _, _)
AtoiDigits(s, i, acc) ==
    IF i > Len(s) \/ ~IsDigit(s[i]) THEN acc
    ELSE AtoiDigits(s, i + 1, 10 * acc + DigitVal(s[i]))

RECURSIVE SkipSpace(_, _)
SkipSpace(s, i) == IF i <= Len(s) /\ s[i] = " " THEN SkipSpace(s, i + 1) ELSE i

(* atoi(): leading blanks, an optional sign, then digits up to the first     *)
(* character that is no digit; 0 when there is no digit.                     *)
Atoi(s) ==
    LET i == SkipSpace(s, 1)
    IN IF i <= Len(s) /\ s[i] = "-" THEN -AtoiDigits(s, i + 1, 0)
       ELSE IF i <= Len(s) /\ s[i] = "+" THEN AtoiDigits(s, i + 1, 0)
       ELSE AtoiDigits(s, i, 0)

GPIName(k) == << "G", "P", "I", DigitChar[k + 1] >>
GPOName(k) == << "G", "P", "O", DigitChar[k + 1] >>

-----------------------------------------------------------------------------
(* The .int file, as LoadProgram reads it:                                   *)
(*   header  whether the first line holds "$$LDcode"                         *)
(*   code    the lines before "$$bits": a line of hex digits decodes to a    *)
(*           BinOp ("op"); a line with another character in its first twenty *)
(*           is "junk"                                                       *)
(*   bits    whether a "$$bits" line follows the code                        *)
(*   tail    the lines after "$$bits": "sym" (symbol,addr) or "cycle"        *)
OpLine(b) == [ kind |-> "op", rec |-> b ]
JunkLine == [ kind |-> "junk", rec |-> ZeroOp ]
SymLine(symbol, addr) == [ kind |-> "sym", symbol |-> symbol, addr |-> addr, cycle |-> 0 ]
CycleLine(us) == [ kind |-> "cycle", symbol |-> << >>, addr |-> << >>, cycle |-> us ]

(* The line of the code section at which the loading loop ends in            *)
(* BadFormat("hexdigit"), 0 when there is none.                              *)
FirstJunk(code) ==
    IF \E i \in 1..Len(code) : code[i].kind = "junk"
    THEN CHOOSE i \in 1..Len(code) :
            /\ code[i].kind = "junk"
            /\ \A j \in 1..(i - 1) : code[j].kind # "junk"
    ELSE 0

(* Program[] after the loading loop has stored the first n lines: line i     *)
(* goes to Program[i-1], whatever its opcode.                                *)
StoreLines(prog, code, n) ==
    [ i \in DOMAIN prog |-> IF i < n THEN code[i + 1].rec ELSE prog[i] ]

(* One pass of the symbol loop over one line: every name that occurs in the  *)
(* symbol takes the address.                                                 *)
SymbolMatches(symbol, name) == Strstr(symbol, name)

BindGPI(gpi, line) ==
    [ k \in Pins |-> IF SymbolMatches(line.symbol, GPIName(k)) THEN Atoi(line.addr)
                     ELSE gpi[k] ]

BindGPO(gpo, line) ==
    [ k \in Pins |-> IF SymbolMatches(line.symbol, GPOName(k)) THEN Atoi(line.addr)
                     ELSE gpo[k] ]

(* The symbol loop from line i on: the wiring when the file ends, or the     *)
(* exit at a "$$cycle" line that does not say 10000.                         *)
RECURSIVE LoadSymbols(_, _, _, _)
LoadSymbols(tail, i, gpi, gpo) ==
    IF i > Len(tail) THEN [ ok |-> TRUE, gpi |-> gpi, gpo |-> gpo ]
    ELSE IF tail[i].kind = "cycle"
         THEN IF tail[i].cycle # 10000
              THEN [ ok |-> FALSE, gpi |-> gpi, gpo |-> gpo ]
              ELSE LoadSymbols(tail, i + 1, gpi, gpo)
         ELSE LoadSymbols(tail, i + 1, BindGPI(gpi, tail[i]), BindGPO(gpo, tail[i]))

Unwired == [ k \in Pins |-> -1 ]

-----------------------------------------------------------------------------
(* printf conversions used by Disassemble.                                   *)
HexChar == << "0", "1", "2", "3", "4", "5", "6", "7", "8", "9",
              "a", "b", "c", "d", "e", "f" >>

RECURSIVE HexDigits(_)
HexDigits(n) ==
    IF n < 16 THEN << HexChar[n + 1] >>
    ELSE HexDigits(n \div 16) \o << HexChar[(n % 16) + 1] >>

RECURSIVE ZeroPad(_, _)
ZeroPad(s, width) == IF Len(s) >= width THEN s ELSE ZeroPad(<< "0" >> \o s, width)

(* "%03x" of a WORD or of pc.                                                *)
Hex3(n) == ZeroPad(HexDigits(n), 3)

(* "%04x" of a SWORD: the short is promoted to int and printed as an         *)
(* unsigned int, so a negative literal shows eight digits: ffff and the four *)
(* of its low half.                                                          *)
Hex4(n) ==
    IF n < 0 THEN << "f", "f", "f", "f" >> \o HexDigits(n + 65536)
    ELSE ZeroPad(HexDigits(n), 4)

RECURSIVE DecDigits(_)
DecDigits(n) ==
    IF n < 10 THEN << DigitChar[n + 1] >>
    ELSE DecDigits(n \div 10) \o << DigitChar[(n % 10) + 1] >>

(* "%d".                                                                     *)
Dec(n) == IF n < 0 THEN << "-" >> \o DecDigits(-n) ELSE DecDigits(n)

ArithChar(op) ==
    CASE op = "INT_SET_VARIABLE_ADD" -> "+"
      [] op = "INT_SET_VARIABLE_SUBTRACT" -> "-"
      [] op = "INT_SET_VARIABLE_MULTIPLY" -> "*"
      [] op = "INT_SET_VARIABLE_DIVIDE" -> "/"

(* The text Disassemble prints for p, after the "%03x: " of its index: the   *)
(* pieces of the format string and the converted arguments, in order.        *)
DisText(p) ==
    CASE p.op = "INT_SET_BIT" -> << "bits[", Hex3(p.name1), "] := 1" >>
      [] p.op = "INT_CLEAR_BIT" -> << "bits[", Hex3(p.name1), "] := 0" >>
      [] p.op = "INT_COPY_BIT_TO_BIT" ->
            << "bits[", Hex3(p.name1), "] := bits[", Hex3(p.name2), "]" >>
      [] p.op = "INT_SET_VARIABLE_TO_LITERAL" ->
            << "int16s[", Hex3(p.name1), "] := ", Dec(p.literal), " (0x",
               Hex4(p.literal), ")" >>
      [] p.op = "INT_SET_VARIABLE_TO_VARIABLE" ->
            << "int16s[", Hex3(p.name1), "] := int16s[", Hex3(p.name2), "]" >>
      [] p.op = "INT_INCREMENT_VARIABLE" -> << "(int16s[", Hex3(p.name1), "])++" >>
      [] p.op \in { "INT_SET_VARIABLE_ADD", "INT_SET_VARIABLE_SUBTRACT",
                    "INT_SET_VARIABLE_MULTIPLY", "INT_SET_VARIABLE_DIVIDE" } ->
            << "int16s[", Hex3(p.name1), "] := int16s[", Hex3(p.name2), "] ",
               ArithChar(p.op), " int16s[", Hex3(p.name3), "]" >>
      [] p.op = "INT_IF_BIT_SET" ->
            << "unless (bits[", Hex3(p.name1), "] set)", " jump ", Hex3(p.name3), "+1" >>
      [] p.op = "INT_IF_BIT_CLEAR" ->
            << "unless (bits[", Hex3(p.name1), "] clear)", " jump ", Hex3(p.name3), "+1" >>
      [] p.op = "INT_IF_VARIABLE_LES_LITERAL" ->
            << "unless (int16s[", Hex3(p.name1), "] < ", Dec(p.literal), ")",
               " jump ", Hex3(p.name3), "+1" >>
      [] p.op = "INT_IF_VARIABLE_EQUALS_VARIABLE" ->
            << "unless (int16s[", Hex3(p.name1), "] == int16s[", Hex3(p.name2), "])",
               " jump ", Hex3(p.name3), "+1" >>
      [] p.op = "INT_IF_VARIABLE_GRT_VARIABLE" ->
            << "unless (int16s[", Hex3(p.name1), "] > int16s[", Hex3(p.name2), "])",
               " jump ", Hex3(p.name3), "+1" >>
      [] p.op = "INT_ELSE" -> << "jump ", Hex3(p.name3), "+1" >>
      [] p.op = "INT_END_OF_PROGRAM" -> << "<end of program>" >>

DisLine(at, p) == [ pc |-> Hex3(at), text |-> DisText(p) ]

-----------------------------------------------------------------------------
(* InterpretOneCycle: what one pass of the switch does with instruction p.   *)

BitOps == { "INT_SET_BIT", "INT_CLEAR_BIT", "INT_COPY_BIT_TO_BIT" }

ArithOps == { "INT_SET_VARIABLE_ADD", "INT_SET_VARIABLE_SUBTRACT",
              "INT_SET_VARIABLE_MULTIPLY" }

BitInRange(a) == a < MAX_INTERNAL_RELAYS
IntInRange(a) == a < MAX_VARIABLES

(* The cells of Bits[] the case of p reads, in the order it reads them.      *)
BitsRead(p) ==
    CASE p.op = "INT_COPY_BIT_TO_BIT" -> { p.name2 }
      [] p.op \in { "INT_IF_BIT_SET", "INT_IF_BIT_CLEAR" } -> { p.name1 }
      [] OTHER -> { }

(* The cells of Integers[] the case of p reads.  The divide reads its        *)
(* divisor first and its dividend only when the divisor is not zero.         *)
IntsRead(p) ==
    CASE p.op = "INT_SET_VARIABLE_TO_VARIABLE" -> { p.name2 }
      [] p.op = "INT_INCREMENT_VARIABLE" -> { p.name1 }
      [] p.op \in ArithOps -> { p.name2, p.name3 }
      [] p.op = "INT_SET_VARIABLE_DIVIDE" ->
            IF IntInRange(p.name3) /\ Integers[p.name3] # 0
            THEN { p.name2, p.name3 } ELSE { p.name3 }
      [] p.op = "INT_IF_VARIABLE_LES_LITERAL" -> { p.name1 }
      [] p.op \in { "INT_IF_VARIABLE_EQUALS_VARIABLE",
                    "INT_IF_VARIABLE_GRT_VARIABLE" } -> { p.name1, p.name2 }
      [] OTHER -> { }

ReadsInRange(p) ==
    /\ \A a \in BitsRead(p) : BitInRange(a)
    /\ \A a \in IntsRead(p) : IntInRange(a)

(* Whether the case of p stores to Bits[p.name1] / Integers[p.name1].        *)
WritesBit(p) == p.op \in BitOps

WritesInt(p) ==
    \/ p.op \in { "INT_SET_VARIABLE_TO_LITERAL", "INT_SET_VARIABLE_TO_VARIABLE",
                  "INT_INCREMENT_VARIABLE" } \cup ArithOps
    \/ p.op = "INT_SET_VARIABLE_DIVIDE" /\ Integers[p.name3] # 0

(* The BYTE stored to Bits[p.name1].                                         *)
BitResult(p) ==
    CASE p.op = "INT_SET_BIT" -> 1
      [] p.op = "INT_CLEAR_BIT" -> 0
      [] p.op = "INT_COPY_BIT_TO_BIT" -> Bits[p.name2]

(* The int the right-hand side evaluates to (operands promoted to int).      *)
IntValue(p) ==
    CASE p.op = "INT_SET_VARIABLE_TO_LITERAL" -> p.literal
      [] p.op = "INT_SET_VARIABLE_TO_VARIABLE" -> Integers[p.name2]
      [] p.op = "INT_INCREMENT_VARIABLE" -> Integers[p.name1] + 1
      [] p.op = "INT_SET_VARIABLE_ADD" -> Integers[p.name2] + Integers[p.name3]
      [] p.op = "INT_SET_VARIABLE_SUBTRACT" -> Integers[p.name2] - Integers[p.name3]
      [] p.op = "INT_SET_VARIABLE_MULTIPLY" -> Integers[p.name2] * Integers[p.name3]
      [] p.op = "INT_SET_VARIABLE_DIVIDE" -> CDiv(Integers[p.name2], Integers[p.name3])

(* The SWORD stored to Integers[p.name1].                                    *)
IntResult(p) == ToSWORD(IntValue(p))

(* The condition a conditional opcode tests.                                 *)
Condition(p) ==
    CASE p.op = "INT_IF_BIT_SET" -> Bits[p.name1] # 0
      [] p.op = "INT_IF_BIT_CLEAR" -> Bits[p.name1] = 0
      [] p.op = "INT_IF_VARIABLE_LES_LITERAL" -> Integers[p.name1] < p.literal
      [] p.op = "INT_IF_VARIABLE_EQUALS_VARIABLE" -> Integers[p.name1] = Integers[p.name2]
      [] p.op = "INT_IF_VARIABLE_GRT_VARIABLE" -> Integers[p.name1] > Integers[p.name2]

(* Whether the case of p assigns pc = p->name3.                              *)
JumpTakenWhenTrue(p) ==
    \/ p.op = "INT_ELSE"
    \/ p.op \in IfOps /\ Condition(p)

JumpTakenIfOnly(p) == p.op \in IfOps /\ ~Condition(p)

JumpTaken(p) ==
    \/ p.op = "INT_ELSE"
    \/ p.op \in IfOps /\ ~Condition(p)

(* pc when the next instruction is fetched: the case's assignment, if any,   *)
(* then the pc++ of the for loop.  An opcode without a case falls out of the *)
(* switch and takes the pc++ like the others.                                *)
NextPcUnbiased(p, at) == IF JumpTaken(p) THEN p.name3 ELSE at + 1

NextPc(p, at) == (IF JumpTaken(p) THEN p.name3 ELSE at) + 1

-----------------------------------------------------------------------------
(* Undefined behaviour.  No routine checks an index, so a store or a load    *)
(* outside an array is executed as it stands.  What the process does from    *)
(* there on is not the program's to say: the model records the access in ub  *)
(* and ends the run in phase "undefined".  A store outside Integers[] or     *)
(* Bits[] lands in whatever the linker placed there, and the other two       *)
(* global arrays are candidates.  Memory(...) is what the three arrays hold  *)
(* after the store: untouched (the store went elsewhere, or the process was  *)
(* killed), or with the stored bytes over part of one element.               *)
Memory(program, integers, bits) ==
    [ Program |-> program, Integers |-> integers, Bits |-> bits ]

Untouched == Memory(Program, Integers, Bits)

(* A BYTE over the low byte of a name1 of Program[], or of a cell of         *)
(* Integers[].                                                               *)
StrayBYTE(v) ==
    { Untouched }
    \cup { Memory([ Program EXCEPT ![i].name1 = (@ \div 256) * 256 + v ], Integers, Bits) :
              i \in DOMAIN Program }
    \cup { Memory(Program, [ Integers EXCEPT ![a] = ToSWORD((@ - (@ % 256)) + v) ], Bits) :
              a \in 0..1 }

(* A SWORD over a literal of Program[], or over two neighbouring cells of    *)
(* Bits[] (low byte first).                                                  *)
StraySWORD(v) ==
    { Untouched }
    \cup { Memory([ Program EXCEPT ![i].literal = v ], Integers, Bits) :
              i \in DOMAIN Program }
    \cup { Memory(Program, Integers,
                  [ Bits EXCEPT ![a] = (v % 65536) % 256,
                                ![a + 1] = (v % 65536) \div 256 ]) : a \in 0..1 }

history == << Integers0, Bits0, inputsCopied, cyclesRun, outputsCopied, pinin >>

Undefined(what, memories) ==
    /\ phase' = "undefined"
    /\ ub' = what
    /\ \E m \in memories :
         /\ Program' = m.Program
         /\ Integers' = m.Integers
         /\ Bits' = m.Bits
    /\ UNCHANGED << file, GPI, GPO, pc, pinmode, pinout, listing, history, parity >>

(* BadFormat(): the message, then exit(-1).                                  *)
BadFormat ==
    /\ phase' = "exit"
    /\ UNCHANGED << file, Integers, Bits, pc, pinmode, pinout, listing, ub, history, parity >>

(* A driver that writes the outputs before it runs the cycle.                *)
NextPhaseReordered(ph) ==
    CASE ph = "LoadProgram" -> "initPins"
      [] ph = "initPins" -> "Disassemble"
      [] ph = "Disassemble" -> "getInputs"
      [] ph = "getInputs" -> "setOutputs"
      [] ph = "setOutputs" -> "InterpretOneCycle"
      [] ph = "InterpretOneCycle" -> "sleep"
      [] ph = "sleep" -> "getInputs"

(* main(): the order of its calls.                                           *)
NextPhase(ph) ==
    CASE ph = "LoadProgram" -> "initPins"
      [] ph = "initPins" -> "Disassemble"
      [] ph = "Disassemble" -> "getInputs"
      [] ph = "getInputs" -> "InterpretOneCycle"
      [] ph = "InterpretOneCycle" -> "setOutputs"
      [] ph = "setOutputs" -> "sleep"
      [] ph = "sleep" -> "getInputs"

-----------------------------------------------------------------------------
(* LoadProgram(argv[1]).                                                     *)
LoadProgram ==
    /\ phase = "LoadProgram"
    /\ LET code == file.code
           junk == FirstJunk(code)
           syms == LoadSymbols(file.tail, 1, Unwired, Unwired)
       IN  IF ~file.header
           THEN BadFormat /\ UNCHANGED << Program, GPI, GPO >>
           ELSE IF junk # 0 /\ junk <= MAX_OPS + 1
           THEN /\ BadFormat
                /\ Program' = StoreLines(Program, code, junk - 1)
                /\ GPI' = Unwired /\ GPO' = Unwired
           ELSE IF Len(code) > MAX_OPS
           THEN /\ phase' = "undefined"
                /\ ub' = "LoadProgram: store past Program[]"
                /\ Program' = StoreLines(Program, code, MAX_OPS)
                /\ GPI' = Unwired /\ GPO' = Unwired
                /\ UNCHANGED << file, Integers, Bits, pc, pinmode, pinout, listing, history, parity >>
           ELSE IF ~file.bits
           THEN /\ BadFormat
                /\ Program' = StoreLines(Program, code, Len(code))
                /\ GPI' = Unwired /\ GPO' = Unwired
           ELSE /\ Program' = StoreLines(Program, code, Len(code))
                /\ GPI' = syms.gpi /\ GPO' = syms.gpo
                /\ phase' = IF syms.ok THEN NextPhase(phase) ELSE "exit"
                /\ UNCHANGED << file, Integers, Bits, pc, pinmode, pinout, listing, ub, history, parity >>

(* main(): the two memsets, wiringPiSetup() and initPins(), then the entry   *)
(* of Disassemble (its pc = 0).                                              *)
PinModes ==
    [ k \in Pins |-> IF GPI[k] > 0 THEN "INPUT"
                     ELSE IF GPO[k] > 0 THEN "OUTPUT" ELSE pinmode[k] ]

initPins ==
    /\ phase = "initPins"
    /\ Integers' = [ a \in 0..(MAX_VARIABLES - 1) |-> 0 ]
    /\ Bits' = [ a \in 0..(MAX_INTERNAL_RELAYS - 1) |-> 0 ]
    /\ pinmode' = PinModes
    /\ pc' = 0
    /\ phase' = NextPhase(phase)
    /\ UNCHANGED << file, Program, GPI, GPO, pinout, listing, ub, history, parity >>

(* A disassembler that follows the unconditional jumps.                     *)
NextListedFollowing(p, at) == IF p.op = "INT_ELSE" THEN p.name3 + 1 ELSE at + 1

(* Disassemble(): the pc++ of its loop; no case assigns pc.                  *)
NextListed(p, at) == at + 1

(* Disassemble(): one pass of its loop.                                      *)
Disassemble ==
    /\ phase = "Disassemble"
    /\ IF pc >= MAX_OPS
       THEN Undefined("Disassemble: load past Program[]", { Untouched })
       ELSE LET p == Program[pc]
            IN  IF p.op \notin OpcodeSet
                THEN BadFormat /\ UNCHANGED << Program, GPI, GPO >>
                ELSE /\ listing' = Append(listing, DisLine(pc, p))
                     /\ IF p.op = "INT_END_OF_PROGRAM"
                        THEN phase' = NextPhase(phase) /\ pc' = pc
                        ELSE phase' = phase /\ pc' = NextListed(p, pc)
                     /\ UNCHANGED << file, Program, Integers, Bits, GPI, GPO,
                                     pinmode, pinout, ub, history, parity >>

-----------------------------------------------------------------------------
(* getInputs(): the eight statements in order, each storing the pin's level  *)
(* when its GPIk is above zero.  in gives what digitalRead() returns.        *)
(* The levels the hardware may show: either level on a pin the symbol lines  *)
(* gave an address, low on the others.                                       *)
Levels == { l \in [ Pins -> { 0, 1 } ] : \A k \in Pins : GPI[k] < 0 => l[k] = 0 }

InputWired(k) == GPI[k] > 0
OutputWired(k) == GPO[k] > 0

RECURSIVE CopyInputs(_, _, _)
CopyInputs(bits, k, in) ==
    IF k > 7 THEN bits
    ELSE CopyInputs(IF InputWired(k) THEN [ bits EXCEPT ![GPI[k]] = in[k] ] ELSE bits,
                    k + 1, in)

(* An interpreter whose pc is a global that is not set at entry.             *)
CarriedPc == pc

(* The first instruction InterpretOneCycle fetches.                          *)
EntryPc == 0

getInputs ==
    /\ phase = "getInputs"
    /\ \E in \in Levels :
         IF \E k \in Pins : InputWired(k) /\ ~BitInRange(GPI[k])
         THEN LET k == CHOOSE j \in Pins : InputWired(j) /\ ~BitInRange(GPI[j])
              IN Undefined("getInputs: store past Bits[]", StrayBYTE(in[k]))
         ELSE /\ Bits' = CopyInputs(Bits, 0, in)
              /\ inputsCopied' = inputsCopied + 1
              /\ phase' = NextPhase(phase)
              /\ pc' = EntryPc
              /\ Bits0' = CopyInputs(Bits, 0, in)
              /\ Integers0' = Integers
              /\ parity' = 0
              /\ pinin' = in
              /\ UNCHANGED << file, Program, Integers, GPI, GPO, pinmode, pinout,
                              listing, ub, cyclesRun, outputsCopied >>

(* InterpretOneCycle(): the case of the switch for p, then the pc++.         *)
ExecuteDivideTraps(p) ==
    IF p.op = "INT_SET_VARIABLE_DIVIDE" /\ Integers[p.name3] = 0
    THEN BadFormat /\ UNCHANGED << Program, GPI, GPO >>
    ELSE /\ Bits' = IF WritesBit(p) THEN [ Bits EXCEPT ![p.name1] = BitResult(p) ] ELSE Bits
         /\ Integers' = IF WritesInt(p) THEN [ Integers EXCEPT ![p.name1] = IntResult(p) ]
                        ELSE Integers
         /\ pc' = NextPc(p, pc)
         /\ parity' = 1 - parity
         /\ UNCHANGED << file, phase, Program, GPI, GPO, pinmode, pinout, listing, ub,
                         history >>

(* An interpreter that takes the second operand for the destination.        *)
ExecuteSwapped(p) ==
    /\ Bits' = IF WritesBit(p) THEN [ Bits EXCEPT ![p.name2] = BitResult(p) ] ELSE Bits
    /\ Integers' = IF WritesInt(p) THEN [ Integers EXCEPT ![p.name2] = IntResult(p) ]
                   ELSE Integers
    /\ pc' = NextPc(p, pc)
    /\ parity' = 1 - parity
    /\ UNCHANGED << file, phase, Program, GPI, GPO, pinmode, pinout, listing, ub, history >>

Execute(p) ==
    /\ Bits' = IF WritesBit(p) THEN [ Bits EXCEPT ![p.name1] = BitResult(p) ] ELSE Bits
    /\ Integers' = IF WritesInt(p) THEN [ Integers EXCEPT ![p.name1] = IntResult(p) ]
                   ELSE Integers
    /\ pc' = NextPc(p, pc)
    /\ parity' = 1 - parity
    /\ UNCHANGED << file, phase, Program, GPI, GPO, pinmode, pinout, listing, ub, history >>

(* An interpreter without the case of the end marker.                        *)
ReturnsNever(p) == FALSE

(* InterpretOneCycle(): case INT_END_OF_PROGRAM: return.                     *)
ReturnsAt(p) == p.op = "INT_END_OF_PROGRAM"

(* InterpretOneCycle(): one pass of its loop.                                *)
InterpretOneCycle ==
    /\ phase = "InterpretOneCycle"
    /\ IF pc >= MAX_OPS
       THEN Undefined("InterpretOneCycle: load past Program[]", { Untouched })
       ELSE LET p == Program[pc]
            IN  IF ReturnsAt(p)
                THEN /\ phase' = NextPhase(phase)
                     /\ cyclesRun' = cyclesRun + 1
                     /\ UNCHANGED << file, Program, Integers, Bits, GPI, GPO, pc,
                                     pinmode, pinout, pinin, listing, ub, Integers0, Bits0,
                                     inputsCopied, outputsCopied, parity >>
                ELSE IF ~ReadsInRange(p)
                THEN Undefined("InterpretOneCycle: load past a bank", { Untouched })
                ELSE IF WritesBit(p) /\ ~BitInRange(p.name1)
                THEN Undefined("InterpretOneCycle: store past Bits[]",
                               StrayBYTE(BitResult(p)))
                ELSE IF WritesInt(p) /\ ~IntInRange(p.name1)
                THEN Undefined("InterpretOneCycle: store past Integers[]",
                               StraySWORD(IntResult(p)))
                ELSE Execute(p)

(* setOutputs(): the eight statements, each a digitalWrite() of the bit when *)
(* its GPOk is above zero.                                                   *)
setOutputs ==
    /\ phase = "setOutputs"
    /\ IF \E k \in Pins : OutputWired(k) /\ ~BitInRange(GPO[k])
       THEN Undefined("setOutputs: load past Bits[]", { Untouched })
       ELSE /\ pinout' = [ k \in Pins |-> IF OutputWired(k) THEN Bits[GPO[k]]
                                          ELSE pinout[k] ]
            /\ outputsCopied' = outputsCopied + 1
            /\ phase' = NextPhase(phase)
            /\ UNCHANGED << file, Program, Integers, Bits, GPI, GPO, pc, pinmode,
                            pinin, listing, ub, Integers0, Bits0, inputsCopied, cyclesRun,
                            parity >>

(* sleep(1), and back to the head of while (1).                              *)
sleep ==
    /\ phase = "sleep"
    /\ outputsCopied < MaxCycles
    /\ phase' = NextPhase(phase)
    /\ UNCHANGED << file, Program, Integers, Bits, GPI, GPO, pc, pinmode, pinout,
                    listing, ub, history, parity >>

-----------------------------------------------------------------------------
(* The files the model is run on.                                            *)
END == BinOp("INT_END_OF_PROGRAM", 0, 0, 0, 0)

File(code, tail) == [ header |-> TRUE, code |-> code, bits |-> TRUE, tail |-> tail ]

Lines(ops) == [ i \in 1..Len(ops) |-> OpLine(ops[i]) ]

NoSymbols == << CycleLine(10000) >>

(* Operands of the instructions of the small programs.                       *)
Triples == { << 0, 0, 1 >>, << 0, 1, 1 >>, << 1, 0, 0 >>, << 0, 0, 0 >> }
Targets == 0..2

Instructions ==
    { BinOp(op, a, 0, 0, 0) : op \in { "INT_SET_BIT", "INT_CLEAR_BIT",
                                       "INT_INCREMENT_VARIABLE" }, a \in 0..1 }
    \cup { BinOp(op, a, 1 - a, 0, 0) : op \in { "INT_COPY_BIT_TO_BIT",
                                                "INT_SET_VARIABLE_TO_VARIABLE" },
                                       a \in 0..1 }
    \cup { BinOp("INT_SET_VARIABLE_TO_LITERAL", a, 0, 0, l) :
              a \in 0..1, l \in { 5, -1, 32767, -32768 } }
    \cup { BinOp(op, t[1], t[2], t[3], 0) :
              op \in ArithOps \cup { "INT_SET_VARIABLE_DIVIDE" }, t \in Triples }
    \cup { BinOp(op, a, 0, j, 0) : op \in { "INT_IF_BIT_SET", "INT_IF_BIT_CLEAR" },
                                   a \in 0..1, j \in Targets }
    \cup { BinOp("INT_IF_VARIABLE_LES_LITERAL", 0, 0, j, l) : j \in Targets, l \in 0..1 }
    \cup { BinOp(op, 0, 1, j, 0) : op \in { "INT_IF_VARIABLE_EQUALS_VARIABLE",
                                            "INT_IF_VARIABLE_GRT_VARIABLE" },
                                   j \in Targets }
    \cup { BinOp("INT_ELSE", 0, 0, j, 0) : j \in Targets }

(* Every program of one or two of these instructions and the end marker.     *)
SmallFiles ==
    { File(Lines(<< i, END >>), NoSymbols) : i \in Instructions }
    \cup { File(Lines(<< i, j, END >>), NoSymbols) : i, j \in Instructions }

(* Longer programs: loops within a cycle, a divisor that an input switches   *)
(* between zero and three, instructions behind the end marker.               *)
LongPrograms ==
    { << BinOp("INT_SET_BIT", 0, 0, 0, 0), BinOp("INT_CLEAR_BIT", 0, 0, 0, 0),
         BinOp("INT_ELSE", 0, 0, 0, 0), END >>,
      << BinOp("INT_SET_VARIABLE_TO_LITERAL", 1, 0, 0, 2),
         BinOp("INT_INCREMENT_VARIABLE", 0, 0, 0, 0),
         BinOp("INT_IF_VARIABLE_GRT_VARIABLE", 0, 1, 0, 0), END >>,
      << BinOp("INT_SET_BIT", 0, 0, 0, 0), END,
         BinOp("INT_SET_BIT", 1, 0, 0, 0), END >>,
      << BinOp("INT_ELSE", 0, 0, 1, 0), END, BinOp("OP_0063", 0, 0, 0, 0),
         BinOp("INT_SET_BIT", 1, 0, 0, 0), END >>,
      << BinOp("INT_SET_BIT", 0, 0, 0, 0), BinOp("OP_0063", 0, 0, 0, 0), END >>,
      << BinOp("INT_SET_VARIABLE_TO_LITERAL", 0, 0, 0, -7),
         BinOp("INT_SET_VARIABLE_TO_LITERAL", 1, 0, 0, 2),
         BinOp("INT_SET_VARIABLE_DIVIDE", 0, 0, 1, 0), END >>,
      << BinOp("INT_SET_VARIABLE_TO_LITERAL", 0, 0, 0, -32768),
         BinOp("INT_SET_VARIABLE_TO_LITERAL", 1, 0, 0, -1),
         BinOp("INT_SET_VARIABLE_DIVIDE", 1, 0, 1, 0), END >>,
      << END >>, << >> }

G == "G"
P == "P"
I == "I"
O == "O"

InputOnBit1 == << SymLine(<< G, P, I, "0" >>, << "1" >>), CycleLine(10000) >>

WiredPrograms ==
    { << BinOp("INT_IF_BIT_SET", 1, 0, 1, 0), BinOp("INT_SET_BIT", 2, 0, 0, 0), END >>,
      << BinOp("INT_SET_VARIABLE_TO_LITERAL", 2, 0, 0, 0),
         BinOp("INT_IF_BIT_SET", 1, 0, 2, 0),
         BinOp("INT_SET_VARIABLE_TO_LITERAL", 2, 0, 0, 3),
         BinOp("INT_SET_VARIABLE_DIVIDE", 0, 2, 2, 0), END >> }

(* Addresses at and past the capacity of a bank.                             *)
OutOfRangePrograms ==
    { << BinOp(op, a, 0, 0, 7), END >> :
         op \in { "INT_SET_BIT", "INT_SET_VARIABLE_TO_LITERAL", "INT_IF_BIT_SET",
                  "INT_INCREMENT_VARIABLE" },
         a \in { MAX_VARIABLES - 1, MAX_VARIABLES, 300 } }
    \cup { << BinOp("INT_SET_VARIABLE_DIVIDE", MAX_VARIABLES, MAX_VARIABLES, 0, 0), END >>,
           << BinOp("INT_SET_VARIABLE_DIVIDE", 0, 0, MAX_VARIABLES, 0), END >>,
           << BinOp("INT_ELSE", 0, 0, 300, 0), END >> }

(* Symbol sections, run with a program that copies bit 1 to bit 2.           *)
CopyProgram == << BinOp("INT_COPY_BIT_TO_BIT", 2, 1, 0, 0), END >>

Tails ==
    { << SymLine(<< G, P, I, "0" >>, << "1" >>), SymLine(<< G, P, O, "0" >>, << "2" >>),
         CycleLine(10000) >>,
      << SymLine(<< G, P, I, "1" >>, << "0" >>), SymLine(<< G, P, O, "1" >>, << "0" >>),
         SymLine(<< G, P, O, "2" >>, << "2" >>) >>,
      << SymLine(<< "X", G, P, I, "1", "0" >>, << "1" >>),
         SymLine(<< G, P, O, "7" >>, << " ", "2", "x" >>) >>,
      << SymLine(<< G, P, I, "0" >>, << "1" >>), SymLine(<< G, P, I, "1" >>, << "1" >>),
         SymLine(<< G, P, O, "3" >>, << "-", "1" >>) >>,
      << SymLine(<< G, P, I, "3" >>, << "2", "0", "0" >>) >>,
      << SymLine(<< G, P, O, "2" >>, << "3", "0", "0" >>) >>,
      << CycleLine(20000), SymLine(<< G, P, I, "0" >>, << "1" >>) >>,
      << >> }

(* A program on bit 0, with an input and an output at address 0.             *)
WiringAtZero ==
    << SymLine(<< G, P, I, "1" >>, << "0" >>), SymLine(<< G, P, O, "1" >>, << "0" >>),
       SymLine(<< G, P, O, "2" >>, << "2" >>) >>

ProgramOnBitZero ==
    << BinOp("INT_COPY_BIT_TO_BIT", 2, 0, 0, 0), BinOp("INT_SET_BIT", 0, 0, 0, 0), END >>

(* Files LoadProgram gives up on, or overruns Program[] with.                *)
Filler(n) == [ i \in 1..n |-> OpLine(BinOp("INT_SET_BIT", 0, 0, 0, 0)) ]

BrokenFiles ==
    { [ File(Lines(CopyProgram), NoSymbols) EXCEPT !.header = FALSE ],
      [ File(Lines(CopyProgram), NoSymbols) EXCEPT !.bits = FALSE ],
      File(<< OpLine(CopyProgram[1]), JunkLine, OpLine(END) >>, NoSymbols),
      File(Filler(MAX_OPS) \o << JunkLine >>, NoSymbols),
      File(Filler(MAX_OPS), NoSymbols),
      File(Filler(MAX_OPS) \o << OpLine(END) >>, NoSymbols),
      File(Filler(MAX_OPS - 1) \o << OpLine(END) >>, NoSymbols) }

Files ==
    SmallFiles
    \cup { File(Lines(ops), NoSymbols) : ops \in LongPrograms \cup OutOfRangePrograms }
    \cup { File(Lines(ops), InputOnBit1) : ops \in WiredPrograms }
    \cup { File(Lines(CopyProgram), tail) : tail \in Tails }
    \cup { File(Lines(ProgramOnBitZero), WiringAtZero) }
    \cup BrokenFiles

-----------------------------------------------------------------------------
(* The process at the entry of main(): the globals are zero.                 *)
Init ==
    /\ file \in Files
    /\ phase = "LoadProgram"
    /\ Program = [ i \in 0..(MAX_OPS - 1) |-> ZeroOp ]
    /\ Integers = [ a \in 0..(MAX_VARIABLES - 1) |-> 0 ]
    /\ Bits = [ a \in 0..(MAX_INTERNAL_RELAYS - 1) |-> 0 ]
    /\ GPI = [ k \in Pins |-> 0 ]
    /\ GPO = [ k \in Pins |-> 0 ]
    /\ pc = 0
    /\ pinmode = [ k \in Pins |-> "unset" ]
    /\ pinout = [ k \in Pins |-> 0 ]
    /\ pinin = [ k \in Pins |-> 0 ]
    /\ listing = << >>
    /\ ub = "none"
    /\ Integers0 = Integers
    /\ Bits0 = Bits
    /\ inputsCopied = 0
    /\ cyclesRun = 0
    /\ outputsCopied = 0
    /\ parity = 0

Next ==
    \/ LoadProgram
    \/ initPins
    \/ Disassemble
    \/ getInputs
    \/ InterpretOneCycle
    \/ setOutputs
    \/ sleep

Spec == Init /\ [][Next]_vars

(* The process runs: whenever main() has a next step, it is taken.           *)
FairSpec == Spec /\ WF_vars(Next)

-----------------------------------------------------------------------------
(* What the claims speak of.                                                 *)

(* InterpretOneCycle is about to fetch Program[pc].                          *)
Fetching == phase = "InterpretOneCycle" /\ pc < MAX_OPS

(* The index of the first end marker, MAX_OPS when there is none.            *)
HasEnd(prog) == \E i \in DOMAIN prog : prog[i].op = "INT_END_OF_PROGRAM"

EndIndex(prog) ==
    IF HasEnd(prog)
    THEN CHOOSE i \in DOMAIN prog :
            /\ prog[i].op = "INT_END_OF_PROGRAM"
            /\ \A j \in 0..(i - 1) : prog[j].op # "INT_END_OF_PROGRAM"
    ELSE MAX_OPS

(* The operand slots an opcode uses as addresses of the bit bank and of the  *)
(* integer bank.                                                             *)
BitAddresses(p) ==
    CASE p.op \in { "INT_SET_BIT", "INT_CLEAR_BIT", "INT_IF_BIT_SET",
                    "INT_IF_BIT_CLEAR" } -> { p.name1 }
      [] p.op = "INT_COPY_BIT_TO_BIT" -> { p.name1, p.name2 }
      [] OTHER -> { }

IntAddresses(p) ==
    CASE p.op \in { "INT_SET_VARIABLE_TO_LITERAL", "INT_INCREMENT_VARIABLE",
                    "INT_IF_VARIABLE_LES_LITERAL" } -> { p.name1 }
      [] p.op \in { "INT_SET_VARIABLE_TO_VARIABLE", "INT_IF_VARIABLE_EQUALS_VARIABLE",
                    "INT_IF_VARIABLE_GRT_VARIABLE" } -> { p.name1, p.name2 }
      [] p.op \in ArithOps \cup { "INT_SET_VARIABLE_DIVIDE" } ->
            { p.name1, p.name2, p.name3 }
      [] OTHER -> { }

AddressesInRange(p) ==
    /\ \A a \in BitAddresses(p) : a < MAX_INTERNAL_RELAYS
    /\ \A a \in IntAddresses(p) : a < MAX_VARIABLES

IsJump(p) == p.op \in IfOps \cup { "INT_ELSE" }

(* A well-formed Program: an end marker, before it only opcodes of the set   *)
(* with addresses below the capacity, and every jump operand the index of an *)
(* instruction before the end marker, so that the jump (operand plus one)    *)
(* lands on an instruction up to the end marker; jumps may go either way.    *)
WellFormed(prog) ==
    /\ HasEnd(prog)
    /\ \A i \in 0..(EndIndex(prog) - 1) :
         /\ prog[i].op \in OpcodeSet
         /\ AddressesInRange(prog[i])
         /\ IsJump(prog[i]) => prog[i].name3 < EndIndex(prog)

(* A well-formed Program whose jumps all go forward.                         *)
ForwardOnly(prog) ==
    /\ WellFormed(prog)
    /\ \A i \in 0..(EndIndex(prog) - 1) : IsJump(prog[i]) => i <= prog[i].name3

-----------------------------------------------------------------------------
(* C1, as stated: for every well-formed Program, jumps in both directions    *)
(* allowed, and whatever the banks hold, a call of InterpretOneCycle reaches *)
(* END_OF_PROGRAM and returns.                                               *)
C1_EveryCycleTerminates ==
    (phase = "InterpretOneCycle" /\ WellFormed(Program)) ~> (phase = "setOutputs")

(* C1, amended: for every well-formed Program whose jumps all go forward     *)
(* (operand3 at least the jump's own index and below the index of            *)
(* END_OF_PROGRAM), and whatever the banks hold, a call of InterpretOneCycle *)
(* reaches END_OF_PROGRAM and returns.                                       *)
C1_ForwardCycleTerminates ==
    (phase = "InterpretOneCycle" /\ ForwardOnly(Program)) ~> (phase = "setOutputs")

(* A cycle has returned after its ELSE at 0 jumped over the SET_BIT at 1.    *)
C1_Witness ==
    /\ phase = "setOutputs"
    /\ ForwardOnly(Program)
    /\ Program[0].op = "INT_ELSE" /\ Program[0].name3 = 1
    /\ Program[1].op = "INT_SET_BIT" /\ Bits[Program[1].name1] = 0

-----------------------------------------------------------------------------
(* The condition each conditional opcode is named after.                     *)
Tested(p) ==
    CASE p.op = "INT_IF_BIT_SET" -> Bits[p.name1] = 1
      [] p.op = "INT_IF_BIT_CLEAR" -> Bits[p.name1] = 0
      [] p.op = "INT_IF_VARIABLE_LES_LITERAL" -> Integers[p.name1] < p.literal
      [] p.op = "INT_IF_VARIABLE_EQUALS_VARIABLE" -> Integers[p.name1] = Integers[p.name2]
      [] p.op = "INT_IF_VARIABLE_GRT_VARIABLE" -> Integers[p.name1] > Integers[p.name2]

(* The program [IF_BIT_SET x, 1] [SET_BIT y] [END] of the jump-bias test,    *)
(* for any two different bits x and y.                                       *)
JumpBiasProgram ==
    /\ Program[0].op = "INT_IF_BIT_SET" /\ Program[0].name3 = 1
    /\ Program[1].op = "INT_SET_BIT"
    /\ Program[2].op = "INT_END_OF_PROGRAM"
    /\ Program[0].name1 # Program[1].name1
    /\ AddressesInRange(Program[0]) /\ AddressesInRange(Program[1])

Returning == phase = "InterpretOneCycle" /\ phase' = "setOutputs"

(* C2: a conditional opcode at index i with jump operand t is followed by    *)
(* the instruction at t+1 when its condition is false and by the one at i+1  *)
(* when it is true; and a cycle of [IF_BIT_SET x, 1] [SET_BIT y] [END]       *)
(* returns with bit y set when bit x was set, and as it was when x was not.  *)
C2_JumpBias ==
    [][ /\ ( Fetching /\ Program[pc].op \in IfOps /\ AddressesInRange(Program[pc]) )
           => /\ phase' = phase
              /\ pc' = IF Tested(Program[pc]) THEN pc + 1 ELSE Program[pc].name3 + 1
        /\ ( Returning /\ JumpBiasProgram )
           => Bits[Program[1].name1] =
                 IF Bits0[Program[0].name1] = 1 THEN 1 ELSE Bits0[Program[1].name1]
      ]_vars

(* The second cycle of the jump-bias program has returned: the input bit was *)
(* set in the first cycle, which set the other bit, and clear in the second, *)
(* which skipped the SET_BIT.                                                *)
C2_Witness ==
    /\ phase = "setOutputs" /\ cyclesRun = 2
    /\ JumpBiasProgram
    /\ Bits0[Program[0].name1] = 0
    /\ Bits[Program[1].name1] = 1

(* C3: ELSE with operand t is followed by the instruction at t+1, whatever   *)
(* the banks hold, and changes no cell of either bank.                       *)
C3_ElseJumps ==
    [][ ( Fetching /\ Program[pc].op = "INT_ELSE" )
        => /\ phase' = phase /\ ub' = ub
           /\ pc' = Program[pc].name3 + 1
           /\ Bits' = Bits /\ Integers' = Integers
      ]_vars

(* The ELSE at 0 with operand 1 has been executed with a bit set: pc is 2,   *)
(* which the program reaches in no other way.                                *)
C3_Witness ==
    /\ phase = "InterpretOneCycle" /\ pc = 2
    /\ Program[0].op = "INT_ELSE" /\ Program[0].name3 = 1
    /\ Program[1].op = "INT_END_OF_PROGRAM"
    /\ \E a \in DOMAIN Bits : Bits[a] = 1

(* An instruction that may store to Integers[d]: an integer opcode with      *)
(* destination d, or any store whose address is outside its bank.            *)
MayStoreTo(p, d) ==
    \/ p.op \in DataOps \ BitOps /\ p.name1 = d
    \/ p.op \in DataOps \ BitOps /\ p.name1 >= MAX_VARIABLES
    \/ p.op \in BitOps /\ p.name1 >= MAX_INTERNAL_RELAYS

(* The only instructions of the Program that write Integers[d] are divides.  *)
OnlyDividesWrite(d) ==
    \A i \in DOMAIN Program :
        MayStoreTo(Program[i], d)
        => Program[i].op = "INT_SET_VARIABLE_DIVIDE" /\ Program[i].name1 = d

DivisorIsZero(p) ==
    p.op = "INT_SET_VARIABLE_DIVIDE" /\ p.name3 < MAX_VARIABLES /\ Integers[p.name3] = 0

(* C4: DIVIDE dest,a,b with int[b] = 0 changes no cell, reports nothing and  *)
(* is followed by the next instruction; and in a program whose only writes   *)
(* to dest are divides, a step of a cycle changes int[dest] only when it is  *)
(* such a divide and its divisor is not zero.                                *)
C4_DivideByZero ==
    [][ /\ ( Fetching /\ DivisorIsZero(Program[pc]) )
           => /\ Integers' = Integers /\ Bits' = Bits
              /\ phase' = phase /\ ub' = ub
              /\ pc' = pc + 1
        /\ \A d \in DOMAIN Integers :
              ( /\ phase = "InterpretOneCycle"
                /\ OnlyDividesWrite(d)
                /\ Fetching => ~( /\ Program[pc].op = "INT_SET_VARIABLE_DIVIDE"
                                   /\ Program[pc].name1 = d
                                   /\ ~DivisorIsZero(Program[pc]) ) )
              => Integers'[d] = Integers[d]
      ]_vars

(* A divide whose divisor is zero has been passed while its destination,     *)
(* written by nothing else, held the quotient of an earlier cycle.           *)
C4_Witness ==
    /\ phase = "setOutputs" /\ cyclesRun = 2
    /\ Program[3].op = "INT_SET_VARIABLE_DIVIDE"
    /\ OnlyDividesWrite(Program[3].name1)
    /\ Integers[Program[3].name3] = 0
    /\ Integers[Program[3].name1] = 1

(* The result of the arithmetic over the integers.                           *)
Exact(p) ==
    CASE p.op = "INT_INCREMENT_VARIABLE" -> Integers[p.name1] + 1
      [] p.op = "INT_SET_VARIABLE_ADD" -> Integers[p.name2] + Integers[p.name3]
      [] p.op = "INT_SET_VARIABLE_SUBTRACT" -> Integers[p.name2] - Integers[p.name3]
      [] p.op = "INT_SET_VARIABLE_MULTIPLY" -> Integers[p.name2] * Integers[p.name3]

IncrementProgram ==
    /\ Program[0].op = "INT_SET_VARIABLE_TO_LITERAL" /\ Program[0].literal = 32767
    /\ Program[1].op = "INT_INCREMENT_VARIABLE" /\ Program[1].name1 = Program[0].name1
    /\ Program[2].op = "INT_END_OF_PROGRAM"
    /\ AddressesInRange(Program[0])

(* C5: ADD, SUBTRACT, MULTIPLY and INCREMENT store the exact result reduced  *)
(* modulo 2^16 into -32768..32767; every cell of the integer bank stays in   *)
(* that range; and a cycle of [int[a] = 32767] [INCREMENT a] [END] returns   *)
(* with int[a] = -32768.                                                     *)
C5_Wraparound ==
    [][ /\ ( /\ Fetching
             /\ Program[pc].op \in ArithOps \cup { "INT_INCREMENT_VARIABLE" }
             /\ AddressesInRange(Program[pc]) )
           => /\ Integers'[Program[pc].name1] \in -32768..32767
              /\ (Integers'[Program[pc].name1] - Exact(Program[pc])) % 65536 = 0
        /\ \A a \in DOMAIN Integers' : Integers'[a] \in -32768..32767
        /\ ( Returning /\ IncrementProgram ) => Integers[Program[0].name1] = -32768
      ]_vars

(* The second cycle of the increment program has returned with the wrapped   *)
(* value.                                                                    *)
C5_Witness ==
    /\ phase = "setOutputs" /\ cyclesRun = 2
    /\ IncrementProgram
    /\ Integers[Program[0].name1] = -32768

-----------------------------------------------------------------------------
(* The records LoadProgram() took from the file.                             *)
Loaded == { i \in DOMAIN Program : i < Len(file.code) }

Cycling == phase \in { "getInputs", "InterpretOneCycle", "setOutputs", "sleep" }

(* C6: a record whose opcode is outside the opcode set makes the load fail:  *)
(* once LoadProgram() has returned, no record it stored has such an opcode,  *)
(* and the cycles never run against a Program that holds one.                *)
C6_UnknownOpcodeNeverLoaded ==
    /\ phase = "initPins" => \A i \in Loaded : Program[i].op \in OpcodeSet
    /\ Cycling => \A i \in Loaded : Program[i].op \in OpcodeSet

(* C7: when InterpretOneCycle() fetches a loaded record whose opcode is      *)
(* outside the opcode set, the process ends with a fatal error; the fetch is *)
(* not passed over as a no-op.                                               *)
C7_UnknownOpcodeAborts ==
    [][ ( /\ Fetching
          /\ pc \in Loaded
          /\ Program[pc].op \notin OpcodeSet )
        => phase' = "exit" ]_vars

(* C8: an address at or above the capacity of its bank, or a jump operand    *)
(* that names no instruction, ends the load or the cycle with a fatal error: *)
(* InterpretOneCycle() never fetches outside the loaded program and never    *)
(* accesses a bank outside 0..capacity-1.                                    *)
C8_NoAccessOutOfRange ==
    /\ ub \notin { "InterpretOneCycle: load past Program[]",
                   "InterpretOneCycle: load past a bank",
                   "InterpretOneCycle: store past Bits[]",
                   "InterpretOneCycle: store past Integers[]" }
    /\ phase = "InterpretOneCycle" => pc \in Loaded

(* C9: after the load no step changes any field of any instruction of the    *)
(* Program.                                                                  *)
C9_ProgramImmutable ==
    [][ phase # "LoadProgram" => Program' = Program ]_vars

(* C10: every cycle of the driver is getInputs(), one InterpretOneCycle()    *)
(* that has returned, setOutputs(), in this order; the input copy of a cycle *)
(* starts only when the output copy of the cycle before is done, and at most *)
(* one cycle is under way.                                                   *)
C10_DriverOrder ==
    /\ outputsCopied <= cyclesRun
    /\ cyclesRun <= inputsCopied
    /\ inputsCopied <= outputsCopied + 1
    /\ phase = "getInputs" => inputsCopied = outputsCopied
    /\ phase = "InterpretOneCycle" =>
          inputsCopied = cyclesRun + 1 /\ cyclesRun = outputsCopied
    /\ phase = "setOutputs" =>
          inputsCopied = cyclesRun /\ cyclesRun = outputsCopied + 1
    /\ phase = "sleep" => inputsCopied = cyclesRun /\ cyclesRun = outputsCopied

(* Two whole cycles have been driven.                                        *)
C10_Witness == phase = "sleep" /\ outputsCopied = 2 /\ cyclesRun = 2 /\ inputsCopied = 2

-----------------------------------------------------------------------------
(* Reading a line of the listing back: the numbers are parsed from the       *)
(* printed digits, and the statement the line shows is carried out on the    *)
(* banks as the opcode table defines it ("/" leaves the destination alone    *)
(* when the divisor is zero, results are kept in sixteen bits).              *)
HexVal(c) == (CHOOSE d \in 1..16 : HexChar[d] = c) - 1

RECURSIVE ParseHex(_, _, _)
ParseHex(s, i, acc) ==
    IF i > Len(s) THEN acc ELSE ParseHex(s, i + 1, 16 * acc + HexVal(s[i]))

Shown(digits) == ParseHex(digits, 1, 0)

(* What a line shows: the cell it assigns, if any, with the value assigned;  *)
(* and the index of the instruction that follows, 0 - 1 for the end marker.  *)
NoStore == [ bank |-> "none", addr |-> 0, value |-> 0 ]

Store(bank, addr, value) == [ bank |-> bank, addr |-> addr, value |-> value ]

ShownArith(c, x, y) ==
    CASE c = "+" -> ToSWORD(x + y)
      [] c = "-" -> ToSWORD(x - y)
      [] c = "*" -> ToSWORD(x * y)
      [] c = "/" -> ToSWORD(CDiv(x, y))

ShownStore(text) ==
    CASE text[1] = "bits[" ->
            Store("bits", Shown(text[2]),
                  CASE text[3] = "] := 1" -> 1
                    [] text[3] = "] := 0" -> 0
                    [] text[3] = "] := bits[" -> Bits[Shown(text[4])])
      [] text[1] = "int16s[" /\ text[3] = "] := " ->
            Store("int16s", Shown(text[2]), Atoi(text[4]))
      [] text[1] = "int16s[" /\ text[3] = "] := int16s[" /\ text[5] = "]" ->
            Store("int16s", Shown(text[2]), Integers[Shown(text[4])])
      [] text[1] = "int16s[" /\ text[3] = "] := int16s[" /\ text[5] = "] " ->
            IF text[6] = "/" /\ Integers[Shown(text[8])] = 0 THEN NoStore
            ELSE Store("int16s", Shown(text[2]),
                       ShownArith(text[6], Integers[Shown(text[4])],
                                  Integers[Shown(text[8])]))
      [] text[1] = "(int16s[" ->
            Store("int16s", Shown(text[2]), ToSWORD(Integers[Shown(text[2])] + 1))
      [] OTHER -> NoStore

(* The condition between "unless (" and ")".                                 *)
ShownCondition(text) ==
    CASE text[1] = "unless (bits[" /\ text[3] = "] set)" -> Bits[Shown(text[2])] # 0
      [] text[1] = "unless (bits[" /\ text[3] = "] clear)" -> Bits[Shown(text[2])] = 0
      [] text[1] = "unless (int16s[" /\ text[3] = "] < " ->
            Integers[Shown(text[2])] < Atoi(text[4])
      [] text[1] = "unless (int16s[" /\ text[3] = "] == int16s[" ->
            Integers[Shown(text[2])] = Integers[Shown(text[4])]
      [] text[1] = "unless (int16s[" /\ text[3] = "] > int16s[" ->
            Integers[Shown(text[2])] > Integers[Shown(text[4])]

(* "jump t+1": the digits of t stand before the last piece, "+1".            *)
ShownTarget(text) == Shown(text[Len(text) - 1]) + 1

ShownNext(text, at) ==
    CASE text[1] \in { "unless (bits[", "unless (int16s[" } ->
            IF ShownCondition(text) THEN at + 1 ELSE ShownTarget(text)
      [] text[1] = "jump " -> ShownTarget(text)
      [] text[1] = "<end of program>" -> 0 - 1
      [] OTHER -> at + 1

ShownBits(text) ==
    LET st == ShownStore(text)
    IN IF st.bank = "bits" THEN [ Bits EXCEPT ![st.addr] = st.value ] ELSE Bits

ShownIntegers(text) ==
    LET st == ShownStore(text)
    IN IF st.bank = "int16s" THEN [ Integers EXCEPT ![st.addr] = st.value ] ELSE Integers

(* The line Disassemble printed for the instruction about to be fetched.     *)
Listed == Fetching /\ pc < Len(listing)

(* InterpretOneCycle does to the banks and to pc what the line of the        *)
(* instruction shows.                                                        *)
ExecutionAsListed ==
    ( Listed /\ AddressesInRange(Program[pc]) )
    => LET text == listing[pc + 1].text
       IN /\ listing[pc + 1].pc = Hex3(pc)
          /\ Bits' = ShownBits(text)
          /\ Integers' = ShownIntegers(text)
          /\ IF ShownNext(text, pc) = 0 - 1 THEN Returning
             ELSE phase' = phase /\ pc' = ShownNext(text, pc)

DisassemblyDescribesExecution == [][ExecutionAsListed]_vars

(* An instruction the interpreter executes and passes is one Disassemble     *)
(* prints a line for, and the other way round.                               *)
AcceptedAlike ==
    /\ ( Fetching /\ pc \in Loaded /\ phase' = phase /\ pc' # pc )
          => Program[pc].op \in OpcodeSet
    /\ ( phase = "Disassemble" /\ Len(listing') > Len(listing) )
          => Program[pc].op \in OpcodeSet

(* C11: for every opcode the line Disassemble prints names the cells and the *)
(* literal InterpretOneCycle uses, its "unless (C) jump t+1" names the       *)
(* condition whose falsity makes the interpreter jump and the index it lands *)
(* on, and the two routines accept the same instructions.                    *)
C11_DisassemblyParity == [][ExecutionAsListed /\ AcceptedAlike]_vars

-----------------------------------------------------------------------------
(* The opcode table: the value a data opcode gives its destination, from the *)
(* banks before the instruction.  The quotient is the one whose remainder    *)
(* has the sign of the dividend; a result is kept in sixteen bits.           *)
Quotient(x, y) ==
    CHOOSE q \in -32768..32768 :
        LET r == x - q * y
        IN /\ (x >= 0 => r >= 0) /\ (x <= 0 => r <= 0)
           /\ (IF r < 0 THEN -r ELSE r) < (IF y < 0 THEN -y ELSE y)

Wrap16(x) == LET low == x % 65536 IN IF low >= 32768 THEN low - 65536 ELSE low

TableBit(p) ==
    CASE p.op = "INT_SET_BIT" -> 1
      [] p.op = "INT_CLEAR_BIT" -> 0
      [] p.op = "INT_COPY_BIT_TO_BIT" -> Bits[p.name2]

TableInt(p) ==
    CASE p.op = "INT_SET_VARIABLE_TO_LITERAL" -> p.literal
      [] p.op = "INT_SET_VARIABLE_TO_VARIABLE" -> Integers[p.name2]
      [] p.op = "INT_INCREMENT_VARIABLE" -> Wrap16(Integers[p.name1] + 1)
      [] p.op = "INT_SET_VARIABLE_ADD" -> Wrap16(Integers[p.name2] + Integers[p.name3])
      [] p.op = "INT_SET_VARIABLE_SUBTRACT" -> Wrap16(Integers[p.name2] - Integers[p.name3])
      [] p.op = "INT_SET_VARIABLE_MULTIPLY" -> Wrap16(Integers[p.name2] * Integers[p.name3])
      [] p.op = "INT_SET_VARIABLE_DIVIDE" ->
            IF Integers[p.name3] = 0 THEN Integers[p.name1]
            ELSE Wrap16(Quotient(Integers[p.name2], Integers[p.name3]))

(* C12: a data opcode leaves the banks as the opcode table says, the sources *)
(* being read before the destination is written, and the next instruction is *)
(* the one that follows it.                                                  *)
C12_DataOpcodeTable ==
    [][ ( Fetching /\ Program[pc].op \in DataOps /\ AddressesInRange(Program[pc]) )
        => /\ phase' = phase /\ pc' = pc + 1
           /\ Bits' = IF Program[pc].op \in BitOps
                      THEN [ Bits EXCEPT ![Program[pc].name1] = TableBit(Program[pc]) ]
                      ELSE Bits
           /\ Integers' = IF Program[pc].op \in BitOps THEN Integers
                          ELSE [ Integers EXCEPT ![Program[pc].name1] =
                                                     TableInt(Program[pc]) ]
      ]_vars

(* A divide whose destination is its dividend has stored -7 / 2 = -3.        *)
C12_Witness ==
    /\ phase = "InterpretOneCycle" /\ pc = 3
    /\ Program[2].op = "INT_SET_VARIABLE_DIVIDE"
    /\ Program[2].name1 = Program[2].name2
    /\ Integers0[Program[2].name1] = 0
    /\ Integers[Program[2].name1] = 0 - 3
    /\ Integers[Program[2].name3] = 2

-----------------------------------------------------------------------------
(* The symbol table as a mapping: the lines of the file that carry exactly   *)
(* the name, and the address a name has by them, -1 when there is none.      *)
LinesNamed(name) ==
    { i \in 1..Len(file.tail) : file.tail[i].kind = "sym" /\ file.tail[i].symbol = name }

ResolvesTo(name, address) ==
    IF LinesNamed(name) = { } THEN address = 0 - 1
    ELSE \E i \in LinesNamed(name) : address = Atoi(file.tail[i].addr)

Loading == phase \in { "LoadProgram", "exit", "undefined" }

(* C13: once the file is loaded, each of GPI0..GPI7 and GPO0..GPO7 has the   *)
(* address of the symbol line that carries exactly its name, whatever the    *)
(* lines with other names say, and -1 when no line carries its name; a name  *)
(* at -1 is not wired.                                                       *)
C13_ExactSymbolResolution ==
    ~Loading =>
        \A k \in Pins :
            /\ ResolvesTo(GPIName(k), GPI[k])
            /\ ResolvesTo(GPOName(k), GPO[k])
            /\ GPI[k] = 0 - 1 => ~InputWired(k)
            /\ GPO[k] = 0 - 1 => ~OutputWired(k)

-----------------------------------------------------------------------------
(* C14: when InterpretOneCycle fetches the end marker it returns at once: no *)
(* cell of a bank changes, pc stays, no further instruction of the call is   *)
(* executed; and a call that returns does so at an end marker.               *)
C14_EndReturnsAtOnce ==
    [][ /\ ( Fetching /\ Program[pc].op = "INT_END_OF_PROGRAM" )
           => /\ Returning
              /\ Bits' = Bits /\ Integers' = Integers
              /\ pc' = pc /\ parity' = parity
              /\ cyclesRun' = cyclesRun + 1
        /\ Returning => Fetching /\ Program[pc].op = "INT_END_OF_PROGRAM"
        /\ cyclesRun' # cyclesRun => Returning
      ]_vars

(* Two cycles of [SET_BIT x] [END] [SET_BIT y] [END] have returned at the    *)
(* first end marker, and bit y is as it was.                                 *)
C14_Witness ==
    /\ phase = "setOutputs" /\ cyclesRun = 2 /\ pc = 1
    /\ Program[0].op = "INT_SET_BIT"
    /\ Program[1].op = "INT_END_OF_PROGRAM"
    /\ Program[2].op = "INT_SET_BIT"
    /\ Program[2].name1 # Program[0].name1
    /\ Bits[Program[0].name1] = 1
    /\ Bits[Program[2].name1] = 0

-----------------------------------------------------------------------------
(* InterpretOneCycle() as a function of its inputs: one pass of the loop on  *)
(* a program, the two banks and an index, then the passes one after another  *)
(* from index 0 until the return.  Nothing else is read.                     *)
MaxSteps == 16

Pass(prog, ints, bits, at) ==
    IF at >= MAX_OPS THEN [ kind |-> "undefined", ints |-> ints, bits |-> bits, pc |-> at ]
    ELSE
    LET p == prog[at]
        to(b, i, n) == [ kind |-> "next", ints |-> i, bits |-> b, pc |-> n + 1 ]
        stop(k) == [ kind |-> k, ints |-> ints, bits |-> bits, pc |-> at ]
        B(a) == a < MAX_INTERNAL_RELAYS
        V(a) == a < MAX_VARIABLES
        bit(v) == to([ bits EXCEPT ![p.name1] = v ], ints, at)
        int(v) == to(bits, [ ints EXCEPT ![p.name1] = ToSWORD(v) ], at)
        unless(c) == to(bits, ints, IF c THEN at ELSE p.name3)
    IN CASE p.op = "INT_SET_BIT" -> IF B(p.name1) THEN bit(1) ELSE stop("undefined")
         [] p.op = "INT_CLEAR_BIT" -> IF B(p.name1) THEN bit(0) ELSE stop("undefined")
         [] p.op = "INT_COPY_BIT_TO_BIT" ->
               IF B(p.name1) /\ B(p.name2) THEN bit(bits[p.name2]) ELSE stop("undefined")
         [] p.op = "INT_SET_VARIABLE_TO_LITERAL" ->
               IF V(p.name1) THEN int(p.literal) ELSE stop("undefined")
         [] p.op = "INT_SET_VARIABLE_TO_VARIABLE" ->
               IF V(p.name1) /\ V(p.name2) THEN int(ints[p.name2]) ELSE stop("undefined")
         [] p.op = "INT_INCREMENT_VARIABLE" ->
               IF V(p.name1) THEN int(ints[p.name1] + 1) ELSE stop("undefined")
         [] p.op = "INT_SET_VARIABLE_ADD" ->
               IF V(p.name1) /\ V(p.name2) /\ V(p.name3)
               THEN int(ints[p.name2] + ints[p.name3]) ELSE stop("undefined")
         [] p.op = "INT_SET_VARIABLE_SUBTRACT" ->
               IF V(p.name1) /\ V(p.name2) /\ V(p.name3)
               THEN int(ints[p.name2] - ints[p.name3]) ELSE stop("undefined")
         [] p.op = "INT_SET_VARIABLE_MULTIPLY" ->
               IF V(p.name1) /\ V(p.name2) /\ V(p.name3)
               THEN int(ints[p.name2] * ints[p.name3]) ELSE stop("undefined")
         [] p.op = "INT_SET_VARIABLE_DIVIDE" ->
               IF ~V(p.name3) THEN stop("undefined")
               ELSE IF ints[p.name3] = 0 THEN to(bits, ints, at)
               ELSE IF V(p.name1) /\ V(p.name2)
               THEN int(CDiv(ints[p.name2], ints[p.name3])) ELSE stop("undefined")
         [] p.op = "INT_IF_BIT_SET" ->
               IF B(p.name1) THEN unless(bits[p.name1] # 0) ELSE stop("undefined")
         [] p.op = "INT_IF_BIT_CLEAR" ->
               IF B(p.name1) THEN unless(bits[p.name1] = 0) ELSE stop("undefined")
         [] p.op = "INT_IF_VARIABLE_LES_LITERAL" ->
               IF V(p.name1) THEN unless(ints[p.name1] < p.literal) ELSE stop("undefined")
         [] p.op = "INT_IF_VARIABLE_EQUALS_VARIABLE" ->
               IF V(p.name1) /\ V(p.name2) THEN unless(ints[p.name1] = ints[p.name2])
               ELSE stop("undefined")
         [] p.op = "INT_IF_VARIABLE_GRT_VARIABLE" ->
               IF V(p.name1) /\ V(p.name2) THEN unless(ints[p.name1] > ints[p.name2])
               ELSE stop("undefined")
         [] p.op = "INT_ELSE" -> to(bits, ints, p.name3)
         [] p.op = "INT_END_OF_PROGRAM" -> stop("return")
         [] OTHER -> to(bits, ints, at)

RECURSIVE Passes(_, _, _, _, _)
Passes(prog, ints, bits, at, fuel) ==
    IF fuel = 0 THEN [ kind |-> "running", ints |-> ints, bits |-> bits, pc |-> at ]
    ELSE LET r == Pass(prog, ints, bits, at)
         IN IF r.kind = "next" THEN Passes(prog, r.ints, r.bits, r.pc, fuel - 1) ELSE r

Cycle(prog, ints, bits) == Passes(prog, ints, bits, 0, MaxSteps)

Entering == phase = "getInputs" /\ phase' = "InterpretOneCycle"

(* C15: every call of InterpretOneCycle starts at instruction 0, whatever pc *)
(* was before, and the banks it returns with are the value of one function   *)
(* of the Program and of the banks it was entered with: equal Programs and   *)
(* equal banks at entry give equal banks at return.                          *)
C15_CycleIsAFunction ==
    [][ /\ Entering => pc' = 0
        /\ Returning =>
              LET end == Cycle(Program, Integers0, Bits0)
              IN /\ end.kind = "return"
                 /\ Bits' = end.bits
                 /\ Integers' = end.ints
      ]_vars

(* The second cycle of a program that changes a cell has returned, the first *)
(* one having left pc on the end marker at a higher index.                   *)
C15_Witness ==
    /\ phase = "setOutputs" /\ cyclesRun = 2 /\ pc = 2
    /\ Program[0].op = "INT_INCREMENT_VARIABLE"
    /\ Program[1].op = "INT_INCREMENT_VARIABLE"
    /\ Program[1].name1 = Program[0].name1
    /\ Integers0[Program[0].name1] = 2
    /\ Integers[Program[0].name1] = 4

-----------------------------------------------------------------------------
(* The records of the file above its first end marker.                       *)
AboveFirstEnd ==
    { i \in Loaded : \E j \in 1..i : file.code[j].rec.op = "INT_END_OF_PROGRAM" }

(* C16: the loader stops at the first end marker and at the capacity: after  *)
(* the load, Program[] holds nothing of the file above the first end marker  *)
(* (the elements there are as they were, zero), and no record was stored     *)
(* past Program[MAX_OPS - 1].                                                *)
C16_LoaderStopsAtEnd ==
    /\ ub # "LoadProgram: store past Program[]"
    /\ ~Loading => \A i \in AboveFirstEnd : Program[i] = ZeroOp

-----------------------------------------------------------------------------
(* The cells of a bank a step changes.                                       *)
BitsChanged == { a \in DOMAIN Bits : Bits'[a] # Bits[a] }

IntegersChanged == { a \in DOMAIN Integers : Integers'[a] # Integers[a] }

(* C17: a pass of InterpretOneCycle changes at most one cell of the banks,   *)
(* and only the one its first operand names: a bit opcode none of            *)
(* Integers[], an integer opcode none of Bits[], a conditional, ELSE and the *)
(* end marker none at all.                                                   *)
C17_Frame ==
    [][ ( Fetching /\ AddressesInRange(Program[pc]) )
        => /\ Cardinality(BitsChanged) + Cardinality(IntegersChanged) <= 1
           /\ BitsChanged \subseteq
                 IF Program[pc].op \in BitOps THEN { Program[pc].name1 } ELSE { }
           /\ IntegersChanged \subseteq
                 IF Program[pc].op \in DataOps \ BitOps THEN { Program[pc].name1 }
                 ELSE { }
      ]_vars

(* After [int[1] = 5] [SET_BIT 0]: the bit opcode has set its bit, and the   *)
(* integer bank is as the first instruction left it.                         *)
C17_Witness ==
    /\ phase = "InterpretOneCycle" /\ pc = 2 /\ cyclesRun = 0
    /\ Program[0].op = "INT_SET_VARIABLE_TO_LITERAL" /\ Program[0].name1 = 1
    /\ Program[1].op = "INT_SET_BIT" /\ Program[1].name1 = 0
    /\ Integers = [ Integers0 EXCEPT ![1] = Program[0].literal ]
    /\ Bits = [ Bits0 EXCEPT ![0] = 1 ]
    /\ Bits0[0] = 0 /\ Program[0].literal # 0

-----------------------------------------------------------------------------
(* A Program with an end marker, before it only opcodes of the set, and      *)
(* every jump operand at most top.                                           *)
JumpsWithin(prog, top) ==
    /\ HasEnd(prog)
    /\ \A i \in 0..(EndIndex(prog) - 1) :
         /\ prog[i].op \in OpcodeSet
         /\ IsJump(prog[i]) => prog[i].name3 <= top

(* C18, as stated: when every jump operand is an index from 0 up to and      *)
(* including the index of the end marker, and every opcode is of the set,    *)
(* every instruction InterpretOneCycle fetches lies at an index up to the    *)
(* end marker's.                                                             *)
C18_PcWithinProgram ==
    ( phase = "InterpretOneCycle" /\ JumpsWithin(Program, EndIndex(Program)) )
    => pc <= EndIndex(Program)

(* C18, amended: a jump lands on its operand plus one, so the operands are   *)
(* to be below the index of the end marker; then every instruction fetched   *)
(* lies at an index up to the end marker's.                                  *)
C18_PcWithinProgramBelowEnd ==
    ( phase = "InterpretOneCycle" /\ JumpsWithin(Program, EndIndex(Program) - 1) )
    => pc <= EndIndex(Program)

(* A jump with the highest operand allowed has landed on the end marker.     *)
C18_Witness ==
    /\ phase = "InterpretOneCycle" /\ parity = 1
    /\ JumpsWithin(Program, EndIndex(Program) - 1)
    /\ Program[0].op = "INT_ELSE"
    /\ Program[0].name3 = EndIndex(Program) - 1
    /\ EndIndex(Program) = 2
    /\ pc = 2

-----------------------------------------------------------------------------
(* The names the symbol lines gave an address of the bit bank to, that of no *)
(* other input.                                                              *)
InputAt(k) ==
    /\ GPI[k] \in 0..(MAX_INTERNAL_RELAYS - 1)
    /\ \A j \in Pins \ { k } : GPI[j] # GPI[k]

OutputAt(k) == GPO[k] \in 0..(MAX_INTERNAL_RELAYS - 1)

Written == phase = "setOutputs" /\ phase' = "sleep"

(* C19: before each cycle the driver copies the level of pin k to the bit    *)
(* GPIk is resolved to, and after each cycle the bit GPOk is resolved to     *)
(* onto pin k, for every address of the bit bank, 0 included.                *)
C19_WiringAtEveryAddress ==
    [][ /\ Entering => \A k \in Pins : InputAt(k) => Bits'[GPI[k]] = pinin'[k]
        /\ Written => \A k \in Pins : OutputAt(k) => pinout'[k] = Bits[GPO[k]]
      ]_vars

-----------------------------------------------------------------------------
(* A Program with an end marker and only opcodes of the set before it; its   *)
(* listing: a line for each index from 0 to the first end marker's, in       *)
(* order, a function of the Program alone.                                   *)
Listable(prog) ==
    /\ HasEnd(prog)
    /\ \A i \in 0..(EndIndex(prog) - 1) : prog[i].op \in OpcodeSet

ListingOf(prog) == [ n \in 1..(EndIndex(prog) + 1) |-> DisLine(n - 1, prog[n - 1]) ]

(* C20: on such a Program each pass of Disassemble prints the next line of   *)
(* the listing, jumps not followed, and changes neither bank nor the         *)
(* Program; it returns with the line of the first end marker, so after at    *)
(* most as many passes as the Program has instructions.                      *)
C20_DisassembleIsPure ==
    [][ ( phase = "Disassemble" /\ Listable(Program) )
        => /\ Bits' = Bits /\ Integers' = Integers /\ Program' = Program
           /\ Len(listing) <= EndIndex(Program)
           /\ listing' = SubSeq(ListingOf(Program), 1, Len(listing) + 1)
           /\ phase' = IF Len(listing') = EndIndex(Program) + 1 THEN "getInputs"
                       ELSE "Disassemble"
      ]_vars

(* Disassemble has returned from [ELSE 1] [x] [END] with three lines, the    *)
(* one of the instruction the jump passes over included.                     *)
C20_Witness ==
    /\ phase = "getInputs" /\ inputsCopied = 0
    /\ Listable(Program) /\ EndIndex(Program) = 2
    /\ Program[0].op = "INT_ELSE" /\ Program[0].name3 = 1
    /\ listing = ListingOf(Program)
    /\ Len(listing) = 3

====
